---- MODULE Spec2Model ----
(***************************************************************************)
(* A model of srcscan: the scan engine (Config.Scan), the profile registry *)
(* (AllProfiles), the per-ecosystem unit constructors (readNodeJSPackage,  *)
(* readGoPackage, readRubyGem, readRubyApp, readJavaMavenProject) and the  *)
(* JSON round trip of units.                                               *)
(*                                                                         *)
(* A filesystem tree is a pair of sets of paths, dirs and files (regular   *)
(* files); a path is the sequence of names below the scan root, <<>> being *)
(* the scan root itself, whose own name is rootName.                       *)
(***************************************************************************)
EXTENDS Integers, Sequences, FiniteSets, TLC

VARIABLES
    rootName,     \* base name of the directory (or file) given to Scan
    dirs,         \* directories of the tree
    files,        \* regular files of the tree
    pkgJSON,      \* the bytes of every package.json of the tree
    unreadable,   \* directories that cannot be opened or listed
    cfgSkipDirs,  \* Config.SkipDirs
    cfgProfiles,  \* Config.Profiles: [isNil, list], a nil or a given list
    pc,           \* where Scan is: idle, loop, walk, done, panic
    pi,           \* index of the profile whose walk is running
    todo,         \* paths filepath.Walk has still to visit, in order
    found,        \* Scan's result list
    err,          \* Scan's named result err
    nodeUnit,     \* result of a direct call of readNodeJSPackage
    rubyUnit,     \* result of a direct call of readRubyApp
    goSrcDirs,    \* BuildContext.SrcDirs(): absolute paths, in order
    goDirs,       \* absolute paths of the directories outside the tree
    goDir,        \* absolute path handed to a direct call of readGoPackage
    goUnit,       \* result of that call
    jsUnit,       \* unit handed to json.Marshal
    jsData,       \* the marshalled data
    jsUnit2,      \* result of UnmarshalJSON
    jsErr         \* error of Marshal or UnmarshalJSON

vars == <<rootName, dirs, files, pkgJSON, unreadable, cfgSkipDirs,
          cfgProfiles, pc, pi, todo, found, err, nodeUnit, rubyUnit, goSrcDirs,
          goDirs, goDir, goUnit, jsUnit, jsData, jsUnit2, jsErr>>

scanVars == <<pc, pi, todo, found, err>>
treeVars == <<rootName, dirs, files, pkgJSON, unreadable, cfgSkipDirs,
              cfgProfiles>>
goVars == <<goSrcDirs, goDirs, goDir, goUnit>>
jsVars == <<jsUnit, jsData, jsUnit2, jsErr>>

(***************************************************************************)
(* Bounds of the model.                                                    *)
(***************************************************************************)
MaxEntries == 3      \* leaf entries of a scanned tree
MaxNodeEntries == 2  \* leaf entries of a package tree, its package.json aside
MaxJSONLen == 3      \* bytes of a package.json
MaxRoots == 2        \* Go source roots
MaxSegments == 2     \* directories above a classified .js file

(***************************************************************************)
(* Strings.  A name is an atomic string; Tok gives its spelling as a       *)
(* sequence of pieces, fine enough that every suffix the program tests     *)
(* begins at a piece boundary, so strings.HasSuffix is a suffix test on    *)
(* the spellings.                                                          *)
(***************************************************************************)
Tok(s) ==
    CASE s = "a.js" -> <<"a", ".js">>
      [] s = "a.min.js" -> <<"a", ".min", ".js">>
      [] s = "a_test.js" -> <<"a_", "test", ".js">>
      [] s = "test.js" -> <<"test", ".js">>
      [] s = "tests.js" -> <<"tests", ".js">>
      [] s = "spec.js" -> <<"spec", ".js">>
      [] s = "specs.js" -> <<"specs", ".js">>
      [] s = "Gruntfile.js" -> <<"Gruntfile", ".js">>
      [] s = "build.js" -> <<"build", ".js">>
      [] s = "Makefile.dryice.js" -> <<"Makefile", ".dryice", ".js">>
      [] s = "build.config.js" -> <<"build", ".config", ".js">>
      [] s = ".js" -> <<".js">>
      [] s = ".min.js" -> <<".min", ".js">>
      [] s = "-min.js" -> <<"-min", ".js">>
      [] s = ".optimized.js" -> <<".optimized", ".js">>
      [] s = "-optimized.js" -> <<"-optimized", ".js">>
      [] s = "package.json" -> <<"package", ".json">>
      [] s = "bower.json" -> <<"bower", ".json">>
      [] s = "__init__.py" -> <<"__init__", ".py">>
      [] s = "m.py" -> <<"m", ".py">>
      [] s = ".py" -> <<".py">>
      [] s = "a.go" -> <<"a", ".go">>
      [] s = ".go" -> <<".go">>
      [] s = "x.gemspec" -> <<"x", ".gemspec">>
      [] s = ".gemspec" -> <<".gemspec">>
      [] s = "a.rb" -> <<"a", ".rb">>
      [] s = ".rb" -> <<".rb">>
      [] s = "A.java" -> <<"A", ".java">>
      [] s = ".java" -> <<".java">>
      [] OTHER -> <<s>>

IsSuffix(b, a) ==
    /\ Len(b) <= Len(a)
    /\ SubSeq(a, Len(a) - Len(b) + 1, Len(a)) = b

\* strings.HasSuffix on names
HasSuffix(str, suffix) == IsSuffix(Tok(suffix), Tok(str))

\* the spelling of a path: its names joined by "/"
RECURSIVE PathTok(_)
PathTok(p) ==
    IF p = <<>> THEN <<>>
    ELSE IF Len(p) = 1 THEN Tok(p[1])
    ELSE Tok(p[1]) \o <<"/">> \o PathTok(Tail(p))

\* strings.HasSuffix on a "/"-joined path
PathHasSuffix(p, suffix) == IsSuffix(Tok(suffix), PathTok(p))

\* byte order of the names the trees are built from
LexOrder ==
    <<"A.java", "Gruntfile.js", "__init__.py", "a.go", "a.js", "a.min.js",
      "a.rb", "a_test.js", "app", "bin", "bower.json", "build_support",
      "config", "config.ru", "db", "dist",
      "examples", "java", "lib", "m.py", "main", "node_modules",
      "package.json", "pom.xml", "src", "sub", "test", "vendor",
      "x.gemspec">>

Rank(name) ==
    IF \E i \in 1..Len(LexOrder) : LexOrder[i] = name
    THEN CHOOSE i \in 1..Len(LexOrder) : LexOrder[i] = name
    ELSE 0

Last(p) == p[Len(p)]
Parent(p) == SubSeq(p, 1, Len(p) - 1)
IsPrefix(p, q) == Len(p) <= Len(q) /\ SubSeq(q, 1, Len(p)) = p
IsStrictPrefix(p, q) == Len(p) < Len(q) /\ SubSeq(q, 1, Len(p)) = p
Range(s) == {s[i] : i \in 1..Len(s)}

(***************************************************************************)
(* util.go                                                                 *)
(***************************************************************************)
contains(list, str) == str \in list

hasAnySuffix(suffixes, relpath) ==
    \E s \in suffixes : PathHasSuffix(relpath, s)

\* os.Stat of a path below the scan root: "dir", "reg" or "none"
Stat(p) ==
    IF p \in dirs THEN "dir" ELSE IF p \in files THEN "reg" ELSE "none"

\* true, false, or a panic when the entry exists and is not a regular file
dirHasFile(dir, filename) ==
    LET st == Stat(dir \o <<filename>>)
    IN  IF st = "none" THEN "false" ELSE IF st = "reg" THEN "true" ELSE "panic"

(***************************************************************************)
(* The tree as filepath.Walk and Readdirnames see it.                      *)
(***************************************************************************)
Children(p) ==
    {q \in dirs \cup files : Len(q) = Len(p) + 1 /\ IsPrefix(p, q)}

RECURSIVE SortPaths(_)
SortPaths(S) ==
    IF S = {} THEN <<>>
    ELSE LET m == CHOOSE x \in S : \A y \in S : Rank(Last(x)) <= Rank(Last(y))
         IN  <<m>> \o SortPaths(S \ {m})

\* the entries of directory p in the order filepath.Walk visits them; a
\* directory that cannot be listed yields none
SortedChildren(p) ==
    IF p \in unreadable THEN <<>> ELSE SortPaths(Children(p))

Readdirnames(p) == {Last(q) : q \in Children(p)}

\* info.Name() of a visited path
NameOf(p) == IF p = <<>> THEN rootName ELSE Last(p)

(***************************************************************************)
(* srcscan.go: Default                                                     *)
(***************************************************************************)
DefaultSkipDirs ==
    {"node_modules", "vendor", "testdata", "site-packages", "bower_components"}

DefaultNodeJS ==
    [TestDirs |-> {"test", "tests", "spec", "specs", "unit", "mocha", "karma",
                   "testdata"},
     TestSuffixes |-> {"test.js", "tests.js", "spec.js", "specs.js"},
     SupportDirs |-> {"build_support"},
     SupportFilenames |-> {"Gruntfile.js", "build.js", "Makefile.dryice.js",
                           "build.config.js"},
     ExampleDirs |-> {"example", "examples", "sample", "samples", "doc", "docs",
                      "demo", "demos"},
     ScriptDirs |-> {"bin", "script", "scripts", "tool", "tools"},
     GeneratedDirs |-> {"build", "dist"},
     GeneratedSuffixes |-> {".min.js", "-min.js", ".optimized.js",
                            "-optimized.js"},
     VendorDirs |-> {"vendor", "bower_components", "node_modules", "assets",
                     "public", "static", "resources"}]

DefaultRuby ==
    [TestDirs |-> <<"spec", "specs", "test", "tests">>,
     GemSrcDirs |-> <<"lib">>,
     AppSrcDirs |-> <<"app", "lib", "config", "db">>]

(***************************************************************************)
(* unit.go: readNodeJSPackage                                              *)
(***************************************************************************)
NodeCategories ==
    <<"LibFiles", "ScriptFiles", "SupportFiles", "ExampleFiles", "TestFiles",
      "VendorFiles", "GeneratedFiles">>

\* firstPass that looks at the first part only
firstPassHeadOnly(c, parts, relpath) ==
    IF parts = <<>> THEN "none"
    ELSE IF contains(c.VendorDirs, Head(parts)) THEN "VendorFiles"
    ELSE IF \/ contains(c.GeneratedDirs, Head(parts))
            \/ hasAnySuffix(c.GeneratedSuffixes, relpath) THEN "GeneratedFiles"
    ELSE "none"

\* the first loop over the parts of relpath: vendored and generated files
RECURSIVE firstPass(_, _, _)
firstPass(c, parts, relpath) ==
    IF parts = <<>> THEN "none"
    ELSE IF contains(c.VendorDirs, Head(parts)) THEN "VendorFiles"
    ELSE IF \/ contains(c.GeneratedDirs, Head(parts))
            \/ hasAnySuffix(c.GeneratedSuffixes, relpath) THEN "GeneratedFiles"
    ELSE firstPass(c, Tail(parts), relpath)

\* the second loop: script, example, test and support files
RECURSIVE secondPass(_, _, _, _)
secondPass(c, parts, relpath, name) ==
    IF parts = <<>> THEN "LibFiles"
    ELSE IF contains(c.ScriptDirs, Head(parts)) THEN "ScriptFiles"
    ELSE IF contains(c.ExampleDirs, Head(parts)) THEN "ExampleFiles"
    ELSE IF \/ contains(c.TestDirs, Head(parts))
            \/ hasAnySuffix(c.TestSuffixes, relpath) THEN "TestFiles"
    ELSE IF \/ contains(c.SupportDirs, Head(parts))
            \/ contains(c.SupportFilenames, name) THEN "SupportFiles"
    ELSE secondPass(c, Tail(parts), relpath, name)

\* the list a .js file with package-relative path relpath is appended to
classify(c, relpath) ==
    LET first == firstPass(c, relpath, relpath)
    IN  IF first # "none" THEN first
        ELSE secondPass(c, relpath, relpath, Last(relpath))

PANIC == [type |-> "panic"]

\* nodeDirStep without the test for a sub-package
nodeDirStepIntoSubPackages(absdir, path) ==
    IF NameOf(path) = "node_modules" THEN "skip" ELSE "descend"

\* nodeDirStep without the test for node_modules
nodeDirStepIntoNodeModules(absdir, path) ==
    IF path # absdir /\ dirHasFile(path, "package.json") = "panic"
    THEN "panic"
    ELSE IF path # absdir /\ dirHasFile(path, "package.json") = "true"
    THEN "skip"
    ELSE "descend"

\* the walk callback's answer for a directory: "skip", "descend" or "panic"
nodeDirStep(absdir, path) ==
    IF NameOf(path) = "node_modules" THEN "skip"
    ELSE IF path # absdir /\ dirHasFile(path, "package.json") = "panic"
    THEN "panic"
    ELSE IF path # absdir /\ dirHasFile(path, "package.json") = "true"
    THEN "skip"
    ELSE "descend"

\* nodeWalk without the test for the .js suffix: every regular file is listed
RECURSIVE nodeWalkAnyFile(_, _, _, _)
nodeWalkAnyFile(c, absdir, stack, u) ==
    IF stack = <<>> THEN u
    ELSE LET path == Head(stack)
             rest == Tail(stack)
             relpath == SubSeq(path, Len(absdir) + 1, Len(path))
         IN  IF path \in files
             THEN LET cat == classify(c, relpath)
                  IN  nodeWalkAnyFile(c, absdir, rest,
                                      [u EXCEPT ![cat] = Append(@, relpath)])
             ELSE IF path \in dirs
             THEN CASE nodeDirStep(absdir, path) = "skip" ->
                           nodeWalkAnyFile(c, absdir, rest, u)
                    [] nodeDirStep(absdir, path) = "panic" -> PANIC
                    [] OTHER ->
                           nodeWalkAnyFile(c, absdir,
                                           SortedChildren(path) \o rest, u)
             ELSE nodeWalkAnyFile(c, absdir, rest, u)

\* filepath.Walk(absdir, ...) of readNodeJSPackage with the paths still to
\* visit in stack; u is the unit being populated
RECURSIVE nodeWalk(_, _, _, _)
nodeWalk(c, absdir, stack, u) ==
    IF stack = <<>> THEN u
    ELSE LET path == Head(stack)
             rest == Tail(stack)
             relpath == SubSeq(path, Len(absdir) + 1, Len(path))
         IN  IF path \in files /\ HasSuffix(NameOf(path), ".js")
             THEN LET cat == classify(c, relpath)
                  IN  nodeWalk(c, absdir, rest,
                               [u EXCEPT ![cat] = Append(@, relpath)])
             ELSE IF path \in dirs
             THEN CASE nodeDirStep(absdir, path) = "skip" ->
                           nodeWalk(c, absdir, rest, u)
                    [] nodeDirStep(absdir, path) = "panic" -> PANIC
                    [] OTHER ->
                           nodeWalk(c, absdir, SortedChildren(path) \o rest, u)
             ELSE nodeWalk(c, absdir, rest, u)

\* a path below the scan root as Config.relAbsPath reports it (Base is the
\* working directory, the scan root is given relative to it)
RelPath(p) == <<rootName>> \o p

readNodeJSPackage(absdir, config) ==
    IF absdir \o <<"package.json">> \notin files THEN PANIC
    ELSE nodeWalk(config, absdir, <<absdir>>,
                  [type |-> "NodeJSPackage",
                   Dir |-> RelPath(absdir),
                   PackageJSON |-> [isNil |-> FALSE, bytes |-> pkgJSON],
                   LibFiles |-> <<>>, ScriptFiles |-> <<>>,
                   SupportFiles |-> <<>>, ExampleFiles |-> <<>>,
                   TestFiles |-> <<>>, VendorFiles |-> <<>>,
                   GeneratedFiles |-> <<>>])

(***************************************************************************)
(* Absolute paths.  The working directory is Cwd; directories outside the  *)
(* scanned tree (Go source roots and what lies below them) are in goDirs.  *)
(***************************************************************************)
Cwd == <<"w">>

Abs(p) == Cwd \o RelPath(p)

\* util.go: isDir, on absolute paths
isDir(path) == path \in goDirs \cup {Abs(d) : d \in dirs}

\* util.go: hasSubdir (no symbolic links): root + "/" is a prefix of dir
hasSubdir(root, dir) ==
    [ok |-> IsStrictPrefix(root, dir),
     rel |-> IF IsStrictPrefix(root, dir)
             THEN SubSeq(dir, Len(root) + 1, Len(dir)) ELSE <<>>]

(***************************************************************************)
(* unit.go: readGoPackage                                                  *)
(***************************************************************************)
\* the import path of a package the provider could not resolve
DotPath == <<".">>

\* index of the first source root that has dir as a subdirectory, or 0
FirstRoot(srcdirs, dir) ==
    IF \E i \in 1..Len(srcdirs) : hasSubdir(srcdirs[i], dir).ok
    THEN CHOOSE i \in 1..Len(srcdirs) :
             /\ hasSubdir(srcdirs[i], dir).ok
             /\ \A j \in 1..(i - 1) : ~hasSubdir(srcdirs[j], dir).ok
    ELSE 0

\* BuildContext.ImportDir: the import path the build-info provider reports:
\* the path below the first source root that has absdir as a subdirectory,
\* unless an earlier root holds a directory of that relative path
ImportDir(srcdirs, absdir) ==
    LET i == FirstRoot(srcdirs, absdir)
        sub == hasSubdir(srcdirs[i], absdir).rel
    IN  IF i = 0 THEN DotPath
        ELSE IF \E j \in 1..(i - 1) : isDir(srcdirs[j] \o sub) THEN DotPath
        ELSE sub

\* the loop over srcdirs of readGoPackage, starting from the provider's
\* import path
goImportPath(srcdirs, absdir, provided) ==
    LET i == FirstRoot(srcdirs, absdir)
        sub == hasSubdir(srcdirs[i], absdir).rel
    IN  IF i = 0 THEN provided
        ELSE IF \E j \in 1..(i - 1) : isDir(srcdirs[j] \o <<"src">> \o sub)
        THEN provided
        ELSE sub

readGoPackage(absdir, reldir, srcdirs) ==
    [type |-> "GoPackage",
     Dir |-> reldir,
     ImportPath |-> goImportPath(srcdirs, absdir, ImportDir(srcdirs, absdir))]

(***************************************************************************)
(* unit.go: the Ruby and Java constructors                                 *)
(***************************************************************************)
\* filepath.Walk of collectRubyFiles and collectJavaFiles: the regular files
\* with the suffix, relative to absdir; a path that does not exist yields
\* nothing
RECURSIVE collectWalk(_, _, _)
collectWalk(absdir, stack, suffix) ==
    IF stack = <<>> THEN <<>>
    ELSE LET path == Head(stack)
             rest == Tail(stack)
         IN  IF path \in files /\ HasSuffix(NameOf(path), suffix)
             THEN <<SubSeq(path, Len(absdir) + 1, Len(path))>>
                  \o collectWalk(absdir, rest, suffix)
             ELSE IF path \in dirs
             THEN collectWalk(absdir, SortedChildren(path) \o rest, suffix)
             ELSE collectWalk(absdir, rest, suffix)

collectRubyFiles(absdir, basedir) == collectWalk(absdir, <<basedir>>, ".rb")

collectJavaFiles(absdir, basedir) == collectWalk(absdir, <<basedir>>, ".java")

\* the loop over config.Ruby.TestDirs: the files of every existing directory
RECURSIVE rubyTestFiles(_, _)
rubyTestFiles(absdir, testdirs) ==
    IF testdirs = <<>> THEN <<>>
    ELSE (IF isDir(Abs(absdir \o <<Head(testdirs)>>))
          THEN collectRubyFiles(absdir, absdir \o <<Head(testdirs)>>)
          ELSE <<>>)
         \o rubyTestFiles(absdir, Tail(testdirs))

readRubyGem(absdir, config) ==
    [type |-> "RubyGem",
     Dir |-> RelPath(absdir),
     SrcFiles |-> IF isDir(Abs(absdir \o <<"lib">>))
                  THEN collectRubyFiles(absdir, absdir \o <<"lib">>)
                  ELSE <<>>,
     TestFiles |-> rubyTestFiles(absdir, config.Ruby.TestDirs)]

\* the loop over config.Ruby.AppSrcDirs: app.SrcFiles is assigned, not
\* appended to, for every existing directory
RECURSIVE rubyAppSrcFiles(_, _, _)
rubyAppSrcFiles(absdir, srcdirs, acc) ==
    IF srcdirs = <<>> THEN acc
    ELSE rubyAppSrcFiles(absdir, Tail(srcdirs),
             IF isDir(Abs(absdir \o <<Head(srcdirs)>>))
             THEN collectRubyFiles(absdir, absdir \o <<Head(srcdirs)>>)
             ELSE acc)

readRubyApp(absdir, config) ==
    [type |-> "RubyApp",
     Dir |-> RelPath(absdir),
     SrcFiles |-> rubyAppSrcFiles(absdir, config.Ruby.AppSrcDirs, <<>>),
     TestFiles |-> rubyTestFiles(absdir, config.Ruby.TestDirs)]

readJavaMavenProject(absdir) ==
    [type |-> "JavaProject",
     Dir |-> RelPath(absdir),
     ProjectClasspath |-> "target/classes",
     SrcFiles |-> collectJavaFiles(absdir, absdir \o <<"src", "main", "java">>),
     TestFiles |-> collectJavaFiles(absdir, absdir \o <<"src", "test", "java">>)]

\* the unit constructors AllProfiles names that the repository's sources do
\* not hold
readNPMPackage(absdir, config) == readNodeJSPackage(absdir, config.NodeJSPackage)

readBowerComponent(absdir) ==
    [type |-> "BowerComponent", Dir |-> RelPath(absdir)]

\* the Unit closure of the Python profile
readPython(path, isdir) ==
    IF isdir THEN [type |-> "PythonPackage", Dir |-> RelPath(path)]
    ELSE [type |-> "PythonModule", File |-> RelPath(path)]

\* Unit.Path()
UnitPath(u) == IF u.type = "PythonModule" THEN u.File ELSE u.Dir

\* UnitType
UnitType(u) == u.type

(***************************************************************************)
(* profiles.go                                                             *)
(***************************************************************************)
NoMatcher == [kind |-> "nil", arg |-> ""]
FileInDir(filename) == [kind |-> "FileInDir", arg |-> filename]
FileSuffixInDir(suffix) == [kind |-> "FileSuffixInDir", arg |-> suffix]
FileHasSuffix(suffix) == [kind |-> "FileHasSuffix", arg |-> suffix]

DirMatches(m, filenames) ==
    CASE m.kind = "FileInDir" -> \E f \in filenames : f = m.arg
      [] m.kind = "FileSuffixInDir" -> \E f \in filenames : HasSuffix(f, m.arg)
      [] OTHER -> FALSE

\* path is the path as filepath.Walk hands it over
FileMatches(m, path) ==
    m.kind = "FileHasSuffix" /\ PathHasSuffix(path, m.arg)

\* the Python profile without TopLevelOnly
PythonProfileDescending ==
    [Name |-> "Python package and module", Dir |-> FileInDir("__init__.py"),
     File |-> FileHasSuffix(".py"), TopLevelOnly |-> FALSE, Unit |-> "python"]

PythonProfile ==
    [Name |-> "Python package and module", Dir |-> FileInDir("__init__.py"),
     File |-> FileHasSuffix(".py"), TopLevelOnly |-> TRUE, Unit |-> "python"]

\* AllProfiles with the Python profile registered twice
AllProfilesTwice ==
    <<[Name |-> "NPM package", Dir |-> FileInDir("package.json"),
       File |-> NoMatcher, TopLevelOnly |-> FALSE, Unit |-> "readNPMPackage"],
      PythonProfile,
      PythonProfile>>

AllProfiles ==
    <<[Name |-> "NPM package", Dir |-> FileInDir("package.json"),
       File |-> NoMatcher, TopLevelOnly |-> FALSE, Unit |-> "readNPMPackage"],
      [Name |-> "Bower component", Dir |-> FileInDir("bower.json"),
       File |-> NoMatcher, TopLevelOnly |-> FALSE,
       Unit |-> "readBowerComponent"],
      PythonProfile,
      [Name |-> "Go package", Dir |-> FileSuffixInDir(".go"),
       File |-> NoMatcher, TopLevelOnly |-> FALSE, Unit |-> "readGoPackage"],
      [Name |-> "Java Maven project", Dir |-> FileInDir("pom.xml"),
       File |-> NoMatcher, TopLevelOnly |-> FALSE,
       Unit |-> "readJavaMavenProject"],
      [Name |-> "Ruby Gem", Dir |-> FileSuffixInDir(".gemspec"),
       File |-> NoMatcher, TopLevelOnly |-> FALSE, Unit |-> "readRubyGem"],
      [Name |-> "Ruby app", Dir |-> FileInDir("config.ru"),
       File |-> NoMatcher, TopLevelOnly |-> FALSE, Unit |-> "readRubyApp"]>>

(***************************************************************************)
(* srcscan.go: Config.Scan                                                 *)
(***************************************************************************)
\* the Config the scan runs with
Config ==
    [SkipDirs |-> cfgSkipDirs, Profiles |-> cfgProfiles,
     NodeJSPackage |-> DefaultNodeJS, Ruby |-> DefaultRuby,
     SrcDirs |-> goSrcDirs]

\* skipDir that finds no name
skipDirNever(c, name) == FALSE

skipDir(c, name) == \E dirToSkip \in c.SkipDirs : name = dirToSkip

\* the profiles Scan walks with
Profiles(c) == IF c.Profiles.isNil THEN AllProfiles ELSE c.Profiles.list

\* profile.Unit(abspath, relpath, c, info)
ProfileUnit(profile, path, c, isdir) ==
    CASE profile.Unit = "readNPMPackage" -> readNPMPackage(path, c)
      [] profile.Unit = "readBowerComponent" -> readBowerComponent(path)
      [] profile.Unit = "python" -> readPython(path, isdir)
      [] profile.Unit = "readGoPackage" ->
             readGoPackage(Abs(path), RelPath(path), c.SrcDirs)
      [] profile.Unit = "readJavaMavenProject" -> readJavaMavenProject(path)
      [] profile.Unit = "readRubyGem" -> readRubyGem(path, c)
      [] profile.Unit = "readRubyApp" -> readRubyApp(path, c)

RootExists == <<>> \in dirs \cup files

\* filepath.Walk cannot stat the root: the callback returns inerr, which
\* ends this profile's walk with that error
WalkRootError ==
    /\ pc = "loop"
    /\ pi <= Len(Profiles(Config))
    /\ ~RootExists
    /\ err' = "lstat"
    /\ pi' = pi + 1
    /\ UNCHANGED <<pc, todo, found>>
    /\ UNCHANGED <<treeVars, nodeUnit, rubyUnit, goVars, jsVars>>

\* filepath.Walk begins the walk of profile pi at the root
WalkBegin ==
    /\ pc = "loop"
    /\ pi <= Len(Profiles(Config))
    /\ RootExists
    /\ pc' = "walk"
    /\ todo' = << <<>> >>
    /\ UNCHANGED <<pi, found, err>>
    /\ UNCHANGED <<treeVars, nodeUnit, rubyUnit, goVars, jsVars>>

\* os.Open or Readdirnames of a directory the callback does not skip fails
OpenFails(path) ==
    /\ path \in unreadable
    /\ ~(path # <<>> /\ skipDir(Config, NameOf(path)))

\* the callback on a directory it cannot open: it returns the error, which
\* ends this profile's walk with that error
VisitDirError ==
    /\ pc = "walk"
    /\ todo # <<>>
    /\ Head(todo) \in dirs
    /\ OpenFails(Head(todo))
    /\ err' = "open"
    /\ pi' = pi + 1
    /\ pc' = "loop"
    /\ todo' = <<>>
    /\ UNCHANGED found
    /\ UNCHANGED <<treeVars, nodeUnit, rubyUnit, goVars, jsVars>>

\* the callback on a directory
VisitDir ==
    /\ pc = "walk"
    /\ todo # <<>>
    /\ Head(todo) \in dirs
    /\ ~OpenFails(Head(todo))
    /\ LET path == Head(todo)
           profile == Profiles(Config)[pi]
       IN  IF path # <<>> /\ skipDir(Config, NameOf(path))
           THEN /\ todo' = Tail(todo)
                /\ UNCHANGED <<pc, found>>
           ELSE IF DirMatches(profile.Dir, Readdirnames(path))
           THEN LET unit == ProfileUnit(profile, path, Config, TRUE)
                IN  IF unit.type = "panic"
                    THEN /\ pc' = "panic"
                         /\ UNCHANGED <<todo, found>>
                    ELSE /\ found' = Append(found, unit)
                         /\ todo' = IF profile.TopLevelOnly THEN Tail(todo)
                                    ELSE SortedChildren(path) \o Tail(todo)
                         /\ pc' = pc
           ELSE /\ todo' = SortedChildren(path) \o Tail(todo)
                /\ UNCHANGED <<pc, found>>
    /\ UNCHANGED <<pi, err>>
    /\ UNCHANGED <<treeVars, nodeUnit, rubyUnit, goVars, jsVars>>

\* the callback on anything that is not a directory
VisitFile ==
    /\ pc = "walk"
    /\ todo # <<>>
    /\ Head(todo) \in files
    /\ LET path == Head(todo)
           profile == Profiles(Config)[pi]
       IN  IF FileMatches(profile.File, RelPath(path))
           THEN LET unit == ProfileUnit(profile, path, Config, FALSE)
                IN  IF unit.type = "panic"
                    THEN /\ pc' = "panic"
                         /\ UNCHANGED <<todo, found>>
                    ELSE /\ found' = Append(found, unit)
                         /\ todo' = Tail(todo)
                         /\ pc' = pc
           ELSE /\ todo' = Tail(todo)
                /\ UNCHANGED <<pc, found>>
    /\ UNCHANGED <<pi, err>>
    /\ UNCHANGED <<treeVars, nodeUnit, rubyUnit, goVars, jsVars>>

\* filepath.Walk returns nil: err of Scan is overwritten, next profile
WalkEnd ==
    /\ pc = "walk"
    /\ todo = <<>>
    /\ err' = "nil"
    /\ pi' = pi + 1
    /\ pc' = "loop"
    /\ UNCHANGED <<todo, found>>
    /\ UNCHANGED <<treeVars, nodeUnit, rubyUnit, goVars, jsVars>>

\* the loop over the profiles is over: Scan returns found and err
ScanReturn ==
    /\ pc = "loop"
    /\ pi > Len(Profiles(Config))
    /\ pc' = "done"
    /\ UNCHANGED <<pi, todo, found, err>>
    /\ UNCHANGED <<treeVars, nodeUnit, rubyUnit, goVars, jsVars>>

(***************************************************************************)
(* The trees the specifications start from.                                *)
(***************************************************************************)
RECURSIVE DirPaths(_, _)
DirPaths(names, n) ==
    IF n = 0 THEN {<<>>}
    ELSE LET P == DirPaths(names, n - 1)
         IN  P \cup {Append(p, d) : p \in P, d \in names}

\* the leaf entries a tree may hold: a leaf in one of the directories
Candidates(dirPaths, leaves) ==
    {[path |-> Append(p, l.name), kind |-> l.kind] :
        p \in dirPaths, l \in leaves}

RECURSIVE SubsetsUpTo(_, _)
SubsetsUpTo(S, k) ==
    IF k = 0 THEN {{}}
    ELSE LET prev == SubsetsUpTo(S, k - 1)
         IN  prev \cup {T \cup {x} : T \in prev, x \in S}

\* no path is both a regular file and a directory
WellFormed(T) == \A e1, e2 \in T : e1.path = e2.path => e1 = e2

TreesOf(candidates, entries) ==
    {T \in SubsetsUpTo(candidates, entries) : WellFormed(T)}

Trees(dirPaths, leaves, entries) ==
    TreesOf(Candidates(dirPaths, leaves), entries)

Prefixes(p) == {SubSeq(p, 1, n) : n \in 0..(Len(p) - 1)}

TreeDirs(T) ==
    {<<>>} \cup UNION {Prefixes(e.path) : e \in T}
           \cup {e.path : e \in {x \in T : x.kind = "dir"}}

TreeFiles(T) == {e.path : e \in {x \in T : x.kind = "reg"}}

Reg(names) == {[name |-> n, kind |-> "reg"] : n \in names}
EmptyDir(names) == {[name |-> n, kind |-> "dir"] : n \in names}

NoUnit == [type |-> "none"]

\* the package.json of the repository's test data, as bytes
TestPackageJSON == <<"{", "}">>

\* what the variables a specification does not use are set to
ScanIdle ==
    /\ pc = "idle"
    /\ pi = 0
    /\ todo = <<>>
    /\ found = <<>>
    /\ err = "nil"

NodeIdle == nodeUnit = NoUnit

RubyIdle == rubyUnit = NoUnit

GoIdle ==
    /\ goDirs = {}
    /\ goDir = <<>>
    /\ goUnit = NoUnit

JSONIdle ==
    /\ jsUnit = NoUnit
    /\ jsData = NoUnit
    /\ jsUnit2 = NoUnit
    /\ jsErr = "nil"

(***************************************************************************)
(* Spec: one call of Config.Scan on every tree of ScanTrees, on a root     *)
(* that is a regular file and on a root that does not exist.               *)
(***************************************************************************)
ScanDirNames == {"node_modules", "sub"}

ScanLeaves ==
    Reg({"package.json", "__init__.py", "a.js"}) \cup EmptyDir({"package.json"})

\* what the other registered profiles match on, held by the root only
ScanRootLeaves ==
    Reg({"bower.json", "a.go", "pom.xml", "x.gemspec", "config.ru"})

\* the root, its subdirectories and theirs
ScanDirPaths == DirPaths(ScanDirNames, 2)

\* a Python module, held by the directory sub only
ScanSubLeaves == Reg({"m.py"})

ScanTrees ==
    TreesOf(Candidates(ScanDirPaths, ScanLeaves)
                \cup Candidates({<<>>}, ScanRootLeaves)
                \cup Candidates({<<"sub">>}, ScanSubLeaves), MaxEntries)

Init ==
    /\ \/ /\ rootName = "testdata"
          /\ \E T \in ScanTrees : dirs = TreeDirs(T) /\ files = TreeFiles(T)
       \/ /\ rootName \in {"m.py", "a.js"}
          /\ dirs = {}
          /\ files = {<<>>}
       \/ /\ rootName = "testdata"
          /\ dirs = {}
          /\ files = {}
    /\ pkgJSON = TestPackageJSON
    /\ unreadable = {}
    /\ cfgSkipDirs \in {DefaultSkipDirs, {}}
    /\ cfgProfiles \in {[isNil |-> TRUE, list |-> <<>>],
                        [isNil |-> FALSE, list |-> <<>>]}
    /\ pc = "loop"
    /\ pi = 1
    /\ todo = <<>>
    /\ found = <<>>
    /\ err = "nil"
    /\ goSrcDirs = <<Cwd>>
    /\ NodeIdle
    /\ RubyIdle
    /\ GoIdle
    /\ JSONIdle

Next ==
    \/ WalkRootError
    \/ WalkBegin
    \/ VisitDir
    \/ VisitFile
    \/ WalkEnd
    \/ ScanReturn

Spec == Init /\ [][Next]_vars

(***************************************************************************)
(* SpecNode: one call of readNodeJSPackage on the root of a package tree.  *)
(***************************************************************************)
NodeDirNames == {"vendor", "dist", "node_modules", "sub"}

NodeLeaves ==
    Reg({"a.js", "a.min.js", "package.json"}) \cup EmptyDir({"package.json"})

NodeDirPaths == DirPaths(NodeDirNames, 2)

RootManifest == [path |-> <<"package.json">>, kind |-> "reg"]

NodeTrees ==
    {T \cup {RootManifest} :
        T \in {S \in Trees(NodeDirPaths, NodeLeaves, MaxNodeEntries) :
                  WellFormed(S \cup {RootManifest})}}

InitNode ==
    /\ rootName \in {"node.js", "node_modules"}
    /\ \E T \in NodeTrees : dirs = TreeDirs(T) /\ files = TreeFiles(T)
    /\ pkgJSON = TestPackageJSON
    /\ unreadable = {}
    /\ cfgSkipDirs = DefaultSkipDirs
    /\ cfgProfiles = [isNil |-> TRUE, list |-> <<>>]
    /\ goSrcDirs = <<>>
    /\ ScanIdle
    /\ NodeIdle
    /\ RubyIdle
    /\ GoIdle
    /\ JSONIdle

\* readNodeJSPackage(absdir, reldir, config, info) on the root of the tree
NodePopulate ==
    /\ nodeUnit = NoUnit
    /\ nodeUnit' = readNodeJSPackage(<<>>, Config.NodeJSPackage)
    /\ UNCHANGED <<treeVars, scanVars, rubyUnit, goVars, jsVars>>

NextNode == NodePopulate

SpecNode == InitNode /\ [][NextNode]_vars

(***************************************************************************)
(* SpecClassify: one call of readNodeJSPackage on a package that holds one *)
(* .js file, below up to MaxSegments directories with the names the        *)
(* classification looks for.                                               *)
(***************************************************************************)
ClassifyDirNames ==
    {"vendor", "dist", "bin", "examples", "test", "build_support", "sub"}

ClassifyFileNames == {"a.js", "a.min.js", "a_test.js", "Gruntfile.js"}

ClassifyTrees ==
    {{RootManifest, [path |-> Append(p, n), kind |-> "reg"]} :
        p \in DirPaths(ClassifyDirNames, MaxSegments), n \in ClassifyFileNames}

InitClassify ==
    /\ rootName = "node.js"
    /\ \E T \in ClassifyTrees : dirs = TreeDirs(T) /\ files = TreeFiles(T)
    /\ pkgJSON = TestPackageJSON
    /\ unreadable = {}
    /\ cfgSkipDirs = DefaultSkipDirs
    /\ cfgProfiles = [isNil |-> TRUE, list |-> <<>>]
    /\ goSrcDirs = <<>>
    /\ ScanIdle
    /\ NodeIdle
    /\ RubyIdle
    /\ GoIdle
    /\ JSONIdle

NextClassify == NodePopulate

SpecClassify == InitClassify /\ [][NextClassify]_vars

(***************************************************************************)
(* SpecIO: one call of Config.Scan on a tree of which one directory may be *)
(* impossible to open, and on a root that does not exist.                  *)
(***************************************************************************)
IOTrees ==
    TreesOf(Candidates(DirPaths({"sub"}, 1),
                       Reg({"package.json", "__init__.py", "a.js"})),
            MaxEntries)

\* a Profiles list of the caller: the NPM profile, then the Python profile
IOProfiles == <<AllProfiles[1], PythonProfile>>

InitIO ==
    /\ rootName = "testdata"
    /\ \/ /\ \E T \in IOTrees : dirs = TreeDirs(T) /\ files = TreeFiles(T)
          /\ unreadable \in {{}} \cup {{d} : d \in dirs}
       \/ /\ dirs = {}
          /\ files = {}
          /\ unreadable = {}
    /\ pkgJSON = TestPackageJSON
    /\ cfgSkipDirs = DefaultSkipDirs
    /\ cfgProfiles \in {[isNil |-> TRUE, list |-> <<>>],
                        [isNil |-> FALSE, list |-> IOProfiles]}
    /\ pc = "loop"
    /\ pi = 1
    /\ todo = <<>>
    /\ found = <<>>
    /\ err = "nil"
    /\ goSrcDirs = <<Cwd>>
    /\ NodeIdle
    /\ RubyIdle
    /\ GoIdle
    /\ JSONIdle

NextIO ==
    \/ WalkRootError
    \/ WalkBegin
    \/ VisitDirError
    \/ VisitDir
    \/ VisitFile
    \/ WalkEnd
    \/ ScanReturn

SpecIO == InitIO /\ [][NextIO]_vars

(***************************************************************************)
(* SpecRuby: one call of readRubyApp on the root of a Ruby app.            *)
(***************************************************************************)
RubyDirPaths == {<<"app">>, <<"lib">>, <<"test">>, <<"app", "lib">>}

RubyManifest == [path |-> <<"config.ru">>, kind |-> "reg"]

RubyTrees ==
    {T \cup {RubyManifest} :
        T \in TreesOf(Candidates(RubyDirPaths, Reg({"a.rb", "a.js"}))
                          \cup Candidates({<<>>}, EmptyDir({"config", "db"})),
                      MaxEntries)}

InitRuby ==
    /\ rootName = "testdata"
    /\ \E T \in RubyTrees : dirs = TreeDirs(T) /\ files = TreeFiles(T)
    /\ pkgJSON = TestPackageJSON
    /\ unreadable = {}
    /\ cfgSkipDirs = DefaultSkipDirs
    /\ cfgProfiles = [isNil |-> TRUE, list |-> <<>>]
    /\ goSrcDirs = <<>>
    /\ ScanIdle
    /\ NodeIdle
    /\ RubyIdle
    /\ GoIdle
    /\ JSONIdle

\* readRubyApp(absdir, reldir, config, info) on the root of the tree
RubyRead ==
    /\ rubyUnit = NoUnit
    /\ rubyUnit' = readRubyApp(<<>>, Config)
    /\ UNCHANGED <<treeVars, scanVars, nodeUnit, goVars, jsVars>>

NextRuby == RubyRead

SpecRuby == InitRuby /\ [][NextRuby]_vars

(***************************************************************************)
(* SpecGo: one call of readGoPackage on a directory below the Go source    *)
(* roots.  The roots are g1/src, g2/src, g3/src; below each there may be a  *)
(* directory p, a directory src and a directory src/p.                     *)
(***************************************************************************)
GoRoots == {<<"g1", "src">>, <<"g2", "src">>, <<"g3", "src">>}

RECURSIVE DistinctSeqs(_, _)
DistinctSeqs(S, n) ==
    IF n = 0 THEN {<<>>}
    ELSE LET prev == DistinctSeqs(S, n - 1)
         IN  prev \cup {Append(q, x) : q \in prev, x \in S}

GoSrcDirLists ==
    {q \in DistinctSeqs(GoRoots, MaxRoots) :
        \A i, j \in 1..Len(q) : i # j => q[i] # q[j]}

GoBelow == {<<"p">>, <<"src">>, <<"src", "p">>}

GoDirSets ==
    {GoRoots \cup D : D \in {E \in SUBSET {r \o b : r \in GoRoots, b \in GoBelow} :
        \A r \in GoRoots : (r \o <<"src", "p">>) \in E => (r \o <<"src">>) \in E}}

InitGo ==
    /\ goSrcDirs \in GoSrcDirLists
    /\ goDirs \in GoDirSets
    /\ goDir \in goDirs
    /\ goUnit = NoUnit
    /\ rootName = "testdata"
    /\ dirs = {}
    /\ files = {}
    /\ pkgJSON = TestPackageJSON
    /\ unreadable = {}
    /\ cfgSkipDirs = DefaultSkipDirs
    /\ cfgProfiles = [isNil |-> TRUE, list |-> <<>>]
    /\ ScanIdle
    /\ NodeIdle
    /\ RubyIdle
    /\ JSONIdle

\* readGoPackage(absdir, reldir, config, info) on goDir
GoRead ==
    /\ goUnit = NoUnit
    /\ goUnit' = readGoPackage(goDir, goDir, Config.SrcDirs)
    /\ UNCHANGED <<treeVars, scanVars, nodeUnit, rubyUnit, goSrcDirs, goDirs,
                   goDir, jsVars>>

NextGo == GoRead

SpecGo == InitGo /\ [][NextGo]_vars

(***************************************************************************)
(* unit.go: the JSON form of a unit.  A JSON object is a function from the  *)
(* keys it holds to their values.                                          *)
(***************************************************************************)
\* the bytes a package.json is made of: braces and insignificant space
JSONBytes == {"{", "}", " "}

RECURSIVE BoundedSeqs(_, _)
BoundedSeqs(S, n) ==
    IF n = 0 THEN {<<>>}
    ELSE LET prev == BoundedSeqs(S, n - 1)
         IN  prev \cup {Append(q, x) : q \in prev, x \in S}

IsSpace(b) == b = " "

\* encoding/json's compact: the text without its insignificant space
Compact(bytes) == SelectSeq(bytes, LAMBDA b : ~IsSpace(b))

\* the only JSON text over JSONBytes is an empty object
ValidJSON(bytes) == Compact(bytes) = <<"{", "}">>

\* the fields of a unit struct, and those tagged omitempty
StructFields(unitType) ==
    CASE unitType = "NodeJSPackage" ->
             {"Dir", "PackageJSON"} \cup Range(NodeCategories)
      [] unitType = "GoPackage" -> {"Dir", "ImportPath"}
      [] unitType = "PythonPackage" -> {"Dir"}
      [] unitType = "PythonModule" -> {"File"}
      [] unitType = "RubyApp" -> {"Dir", "SrcFiles", "TestFiles"}
      [] unitType = "RubyGem" -> {"Dir", "SrcFiles", "TestFiles"}
      [] unitType = "JavaProject" ->
             {"Dir", "ProjectClasspath", "SrcFiles", "TestFiles"}
      [] OTHER -> {}

OmitEmpty(unitType) ==
    IF unitType = "NodeJSPackage"
    THEN {"PackageJSON"} \cup Range(NodeCategories) ELSE {}

IsEmptyValue(field, v) ==
    IF field = "PackageJSON" THEN Len(v.bytes) = 0 ELSE v = <<>>

\* json.Marshal(unit): a json.RawMessage is written compacted, and is an
\* error when it is not JSON
Marshal(u) ==
    LET t == UnitType(u)
        keys == {f \in StructFields(t) :
                    ~(f \in OmitEmpty(t) /\ IsEmptyValue(f, u[f]))}
    IN  IF "PackageJSON" \in keys /\ ~ValidJSON(u.PackageJSON.bytes)
        THEN [err |-> "json: error calling MarshalJSON", data |-> <<>>]
        ELSE [err |-> "nil",
              data |-> [f \in keys |->
                           IF f = "PackageJSON" THEN Compact(u[f].bytes)
                           ELSE u[f]]]

\* the zero value of a struct field
ZeroValue(field) ==
    CASE field = "PackageJSON" -> [isNil |-> TRUE, bytes |-> <<>>]
      [] field = "ProjectClasspath" -> ""
      [] OTHER -> <<>>

HandledUnitTypes ==
    {"NodeJSPackage", "GoPackage", "PythonPackage", "PythonModule", "RubyApp",
     "RubyGem", "JavaProject"}

\* UnmarshalJSON(data, unitType)
UnmarshalJSON(data, unitType) ==
    IF unitType \notin HandledUnitTypes
    THEN [err |-> "unhandled source unit type", unit |-> NoUnit]
    ELSE [err |-> "nil",
          unit |-> [f \in StructFields(unitType) \cup {"type"} |->
                       IF f = "type" THEN unitType
                       ELSE IF f \notin DOMAIN data THEN ZeroValue(f)
                       ELSE IF f = "PackageJSON"
                       THEN [isNil |-> FALSE, bytes |-> data[f]]
                       ELSE data[f]]]

(***************************************************************************)
(* SpecJSON: a unit Scan produces is marshalled and unmarshalled again.    *)
(***************************************************************************)
JSONTrees ==
    {T \cup {RootManifest} : T \in SUBSET Candidates({<<>>}, Reg({"a.js", "a.min.js"}))}

InitJSON ==
    /\ rootName = "testdata"
    /\ \E T \in JSONTrees : dirs = TreeDirs(T) /\ files = TreeFiles(T)
    /\ pkgJSON \in BoundedSeqs(JSONBytes, MaxJSONLen)
    /\ unreadable = {}
    /\ cfgSkipDirs = DefaultSkipDirs
    /\ cfgProfiles = [isNil |-> TRUE, list |-> <<>>]
    /\ goSrcDirs = <<Cwd>>
    /\ jsUnit \in {ProfileUnit(AllProfiles[i], <<>>, Config, TRUE) : i \in {1, 3, 4}}
    /\ jsData = NoUnit
    /\ jsUnit2 = NoUnit
    /\ jsErr = "nil"
    /\ ScanIdle
    /\ NodeIdle
    /\ RubyIdle
    /\ GoIdle

\* data, err := json.Marshal(unit)
JSONMarshal ==
    /\ jsData = NoUnit
    /\ jsErr = "nil"
    /\ LET r == Marshal(jsUnit)
       IN  /\ jsErr' = r.err
           /\ jsData' = IF r.err = "nil" THEN [type |-> "data", data |-> r.data]
                        ELSE jsData
    /\ UNCHANGED <<treeVars, scanVars, nodeUnit, rubyUnit, goVars, jsUnit, jsUnit2>>

\* unit2, err := UnmarshalJSON(data, UnitType(unit))
JSONUnmarshal ==
    /\ jsData # NoUnit
    /\ jsUnit2 = NoUnit
    /\ jsErr = "nil"
    /\ LET r == UnmarshalJSON(jsData.data, UnitType(jsUnit))
       IN  /\ jsErr' = r.err
           /\ jsUnit2' = r.unit
    /\ UNCHANGED <<treeVars, scanVars, nodeUnit, rubyUnit, goVars, jsUnit, jsData>>

NextJSON == JSONMarshal \/ JSONUnmarshal

SpecJSON == InitJSON /\ [][NextJSON]_vars

(***************************************************************************)
(* Properties.                                                             *)
(***************************************************************************)
\* every path in one of the seven lists of a NodeJSPackage
ListedFiles(u) == UNION {Range(u[c]) : c \in Range(NodeCategories)}

\* the places (list, index) at which relpath f is listed in u
Occurrences(u, f) ==
    UNION {{<<c, i>> : i \in {k \in 1..Len(u[c]) : u[c][k] = f}} :
              c \in Range(NodeCategories)}

\* the .js files of the package rooted at pkg, relative to it: regular files
\* not below a directory named node_modules (the package root counted) and
\* not below a subdirectory of pkg that holds a regular file package.json
PackageJSFiles(pkg) ==
    {SubSeq(f, Len(pkg) + 1, Len(f)) :
        f \in {g \in files :
                 /\ IsStrictPrefix(pkg, g)
                 /\ HasSuffix(Last(g), ".js")
                 /\ \A d \in dirs :
                        (IsPrefix(pkg, d) /\ IsStrictPrefix(d, g)) =>
                            /\ NameOf(d) # "node_modules"
                            /\ d # pkg => (d \o <<"package.json">>) \notin files}}

\* C1: once readNodeJSPackage has populated a package, every .js file of the
\* package (node_modules directories and nested packages excluded) is in
\* exactly one of the seven lists, exactly once, and the lists hold nothing
\* else.
C1_Partition ==
    nodeUnit.type = "NodeJSPackage" =>
        /\ \A f \in PackageJSFiles(<<>>) : Cardinality(Occurrences(nodeUnit, f)) = 1
        /\ ListedFiles(nodeUnit) \subseteq PackageJSFiles(<<>>)

\* a populated package with a listed file and a .js file left out
C1_Witness ==
    /\ nodeUnit.type = "NodeJSPackage"
    /\ ListedFiles(nodeUnit) # {}
    /\ \E f \in files : HasSuffix(Last(f), ".js") /\ f \notin PackageJSFiles(<<>>)

UnitsOf(variant) == {u \in Range(found) : u.type = variant}

\* a directory of the tree that holds a regular file package.json
IsPackageDir(d) == d \in dirs /\ (d \o <<"package.json">>) \in files

\* d, a path below the scan root, lies at or below a directory below the scan
\* root whose name is in names
UnderNamed(d, names) ==
    \E i \in 1..Len(d) : d[i] \in names /\ SubSeq(d, 1, i) \in dirs

\* the path of a unit below the scan root
BelowRoot(u) == Tail(UnitPath(u))

\* no file of the package unit u rooted at P lies below the directory Q
NoFileBelow(u, P, Q) ==
    \A f \in ListedFiles(u) : ~IsStrictPrefix(Q, P \o f)

NoListedNodeModules ==
    \A u \in UnitsOf("NodeJSPackage") : \A f \in ListedFiles(u) :
        \A i \in 1..(Len(f) - 1) : f[i] # "node_modules"

\* a directory named node_modules below a package root of the tree
NodeModulesOfPackage(d) ==
    /\ d \in dirs
    /\ d # <<>>
    /\ Last(d) = "node_modules"
    /\ \E P \in dirs : IsPackageDir(P) /\ IsStrictPrefix(P, d)

\* no unit of found has its path inside a node_modules directory of a package
NoUnitInNodeModules ==
    \A u \in Range(found) : \A d \in dirs :
        NodeModulesOfPackage(d) => ~IsStrictPrefix(d, BelowRoot(u))

\* C4 as stated: for every Config, no file below a node_modules directory of
\* a package is in a list of its unit, and no unit has its path inside such a
\* directory.
C4_NodeModulesAlways == NoListedNodeModules /\ NoUnitInNodeModules

\* C4 amended: the second half for every Config whose SkipDirs names
\* node_modules.
C4_NodeModules ==
    /\ NoListedNodeModules
    /\ "node_modules" \in cfgSkipDirs => NoUnitInNodeModules

\* Scan has returned the unit of a root package that has a node_modules
\* directory with a package and a .js file in it
C4_Witness ==
    /\ pc = "done"
    /\ "node_modules" \in cfgSkipDirs
    /\ IsPackageDir(<<>>)
    /\ IsPackageDir(<<"node_modules">>)
    /\ <<"node_modules", "a.js">> \in files
    /\ \E u \in UnitsOf("NodeJSPackage") : u.Dir = RelPath(<<>>)

\* C5: no unit has a path at or below a directory, the scan root aside, whose
\* name is in SkipDirs, whatever the profile; and the scan root is scanned
\* though its own name is in SkipDirs: a root that holds __init__.py is emitted
\* as a PythonPackage by the registered profiles.
C5_SkipDirs ==
    /\ \A u \in Range(found) : ~UnderNamed(BelowRoot(u), cfgSkipDirs)
    /\ (/\ pc = "done" /\ cfgProfiles.isNil /\ rootName \in cfgSkipDirs
        /\ <<>> \in dirs /\ <<"__init__.py">> \in files) =>
           \E u \in UnitsOf("PythonPackage") : u.Dir = RelPath(<<>>)

\* Scan has returned: the root, whose name is in SkipDirs, is emitted, and the
\* package in its skipped directory node_modules is not
C5_Witness ==
    /\ pc = "done"
    /\ rootName \in cfgSkipDirs
    /\ "node_modules" \in cfgSkipDirs
    /\ IsPackageDir(<<"node_modules">>)
    /\ <<"sub", "__init__.py">> \in files
    /\ \E u \in UnitsOf("PythonPackage") : u.Dir = RelPath(<<"sub">>)
    /\ \E u \in Range(found) : BelowRoot(u) = <<>>

C9_EveryPythonPackage ==
    (pc = "done" /\ cfgProfiles.isNil /\ cfgSkipDirs = DefaultSkipDirs) =>
        \A d \in dirs :
            ((d \o <<"__init__.py">>) \in files /\ ~UnderNamed(d, cfgSkipDirs)) =>
                \E u \in UnitsOf("PythonPackage") : u.Dir = RelPath(d)


\* C8: marshalling a unit Scan produced and unmarshalling the data with the
\* unit's own type tag gives no error and a unit equal to the original in
\* every attribute, the bytes of package.json included.  Stated here for the
\* units of trees whose package.json is well-formed JSON.
C8_RoundTrip ==
    ValidJSON(pkgJSON) =>
        /\ jsErr = "nil"
        /\ jsUnit2 # NoUnit => jsUnit2 = jsUnit

\* the source roots before the i-th that hold a directory of relative path sub
Collides(i, sub) == \E j \in 1..(i - 1) : (goSrcDirs[j] \o sub) \in goDirs

\* C10: for a package directory strictly below a source root, ImportPath is
\* the path below that root when no earlier root holds a directory of that
\* relative path, and is left unresolved when one does.
C10_ImportPath ==
    goUnit # NoUnit =>
        \A i \in 1..Len(goSrcDirs) :
            LET sub == hasSubdir(goSrcDirs[i], goDir).rel
            IN  hasSubdir(goSrcDirs[i], goDir).ok =>
                    /\ ~Collides(i, sub) => goUnit.ImportPath = sub
                    /\ Collides(i, sub) => goUnit.ImportPath = DotPath

\* the units of found the Python profile emitted
PythonUnits == UnitsOf("PythonPackage") \cup UnitsOf("PythonModule")

AnySegment(f, names) == \E i \in 1..Len(f) : f[i] \in names

\* f meets the vendor or the generated condition
IsVendorOrGenerated(f) ==
    \/ AnySegment(f, DefaultNodeJS.VendorDirs)
    \/ AnySegment(f, DefaultNodeJS.GeneratedDirs)
    \/ hasAnySuffix(DefaultNodeJS.GeneratedSuffixes, f)

\* C12: a .js file with a VendorDirs or GeneratedDirs segment, or with a
\* GeneratedSuffixes suffix, is in VendorFiles or GeneratedFiles, never in
\* another list, whatever the segments before.
C12_FirstPass ==
    nodeUnit.type = "NodeJSPackage" =>
        \A c \in Range(NodeCategories) : \A f \in Range(nodeUnit[c]) :
            IsVendorOrGenerated(f) => c \in {"VendorFiles", "GeneratedFiles"}

\* a vendored or generated file is listed whose first segment is a script,
\* example, test or support directory
C12_Witness ==
    /\ nodeUnit.type = "NodeJSPackage"
    /\ \E c \in {"VendorFiles", "GeneratedFiles"} : \E f \in Range(nodeUnit[c]) :
           /\ Len(f) = 3
           /\ f[1] \in DefaultNodeJS.ScriptDirs \cup DefaultNodeJS.ExampleDirs
                         \cup DefaultNodeJS.TestDirs \cup DefaultNodeJS.SupportDirs
           /\ f[2] \in DefaultNodeJS.VendorDirs \cup DefaultNodeJS.GeneratedDirs

\* the first of script, example, test, support whose condition holds of f as
\* a whole, library when none does
WholeFileCategory(f) ==
    IF AnySegment(f, DefaultNodeJS.ScriptDirs) THEN "ScriptFiles"
    ELSE IF AnySegment(f, DefaultNodeJS.ExampleDirs) THEN "ExampleFiles"
    ELSE IF \/ AnySegment(f, DefaultNodeJS.TestDirs)
            \/ hasAnySuffix(DefaultNodeJS.TestSuffixes, f) THEN "TestFiles"
    ELSE IF \/ AnySegment(f, DefaultNodeJS.SupportDirs)
            \/ Last(f) \in DefaultNodeJS.SupportFilenames THEN "SupportFiles"
    ELSE "LibFiles"

\* C13: a .js file that is neither vendored nor generated is in the list of
\* the first of script, example, test, support whose condition holds of the
\* file as a whole, wherever in the path the segment is, and in LibFiles when
\* none holds.
C13_SecondPass ==
    nodeUnit.type = "NodeJSPackage" =>
        \A c \in Range(NodeCategories) : \A f \in Range(nodeUnit[c]) :
            ~IsVendorOrGenerated(f) => c = WholeFileCategory(f)

\* C14: once the walk of a profile has failed, Scan adds no unit and still
\* holds an error: the scan is aborted and the error is returned, not lost to
\* a later profile's walk.
C14_FailFast == [][err # "nil" => (found' = found /\ err' # "nil")]_vars

\* the regular .rb files below the directories of the app root named in
\* names, relative to the app root
RubyFilesUnder(names) ==
    {f \in files : Len(f) > 1 /\ f[1] \in names /\ HasSuffix(Last(f), ".rb")}

\* C15: SrcFiles of a RubyApp holds every .rb file below every existing
\* directory of AppSrcDirs, and TestFiles every .rb file below every existing
\* directory of TestDirs.
C15_RubyAppFiles ==
    rubyUnit.type = "RubyApp" =>
        /\ RubyFilesUnder(Range(DefaultRuby.AppSrcDirs))
               \subseteq Range(rubyUnit.SrcFiles)
        /\ RubyFilesUnder(Range(DefaultRuby.TestDirs))
               \subseteq Range(rubyUnit.TestFiles)

\* C16: Scan never panics: a directory whose entry package.json is itself a
\* directory is not taken for a Node.js package, and neither the unit
\* constructor nor the populator's probe for a sub-package fails on it.
C16_NoPanic == pc # "panic"

====
